---- MODULE Spec2Model ----
(***************************************************************************)
(* tye_home: page persistence (src/app.rs) and the log bridge              *)
(* (src/logger.rs).                                                        *)
(*                                                                         *)
(* f32 values are modelled as integers in units of 1e-7, so the default    *)
(* 3.1415926 is 31415926 and 1.0 is 10000000.  Log levels are the          *)
(* discriminants of log::Level (Error = 1 .. Trace = 5) and filters those  *)
(* of log::LevelFilter (Off = 0 .. Trace = 5), which is how the log crate  *)
(* compares a level with a filter.                                         *)
(***************************************************************************)
EXTENDS Integers, Sequences, FiniteSets, TLC

VARIABLES
    pc,             \* "start" before MyApp::new, "running" after Ok, "failed" after
                    \* Err, "exited" after the shutdown save
    cc_storage,     \* cc.storage is Some (CreationContext handed to MyApp::new)
    frame_storage,  \* frame.storage() / frame.storage_mut() is Some
    is_mobile,      \* js_imports::is_mobile()
    storage,        \* the host key/value storage: key -> stored RON value or NoEntry
    page_data,      \* MyApp.page_data
    debug_window,   \* MyApp.debug_window
    layout,         \* MyApp.layout
    logs,           \* MyApp.logs, oldest first, at most LOG_CAPACITY lines
    receiver,       \* who holds the mpsc::Receiver: "caller", "app" or "dropped"
    filter,         \* Logger.filter = WebLogger filter = log::max_level()
    channel,        \* records sent on the mpsc channel and not yet received
    console,        \* lines the last operation wrote to the web console
    log_output,     \* text the debug window showed in the last frame
    appended,       \* every line pushed to MyApp.logs so far (history)
    last            \* history: the last operation, its argument (a page or a
                    \* level), for a page switch or a reset the page data
                    \* before it, and for a page switch that follows a page
                    \* switch the page data before the earlier one

vars == <<pc, cc_storage, frame_storage, is_mobile, storage, page_data,
          debug_window, layout, logs, receiver, filter, channel, console,
          log_output, appended, last>>

----------------------------------------------------------------------------
(* Bounds *)

MaxSent == 4            \* records the channel accepts in one run of Spec
MaxIncrements == 1      \* presses of "Increment" above the default value
MaxRingLines == 18      \* records logged in one run of SpecRing
MaxPending == 2         \* records in flight on the channel in SpecRing
MaxDirect == 3          \* records handed to Logger::log in one run of SpecLog

----------------------------------------------------------------------------
(* Program constants *)

STORAGE_KEY == "tye_home"
LAYOUT_KEY == "tye_home-Layout"
LOG_CAPACITY == 16
DefaultValue == 31415926
IncrementStep == 10000000
SliderMax == 100000000
DefaultLabel == "Hello world!"

Pages == {"Home", "Example"}                  \* Page::all()
PageOrder == <<"Home", "Example">>            \* the order Page::all() lists them

Error == 1
Warn == 2
Info == 3
Debug == 4
Trace == 5
Off == 0
Levels == Error..Trace
LevelFilters == Off..Trace

Labels == {DefaultLabel, "edit"}              \* text the user can type
SliderValues == {SliderMax}                   \* positions the slider is dragged to
Texts == {"m"}                                \* message text of a logged record

----------------------------------------------------------------------------
(* Data model *)

Home == [kind |-> "Home"]
ExampleData(l, v) == [kind |-> "Example", label |-> l, value |-> v]

\* impl Default for Example
ExampleDefault == ExampleData(DefaultLabel, DefaultValue)

\* impl Default for PageData
PageDataDefault == Home

\* impl Into<PageData> for Page
PageInto(page) == IF page = "Home" THEN Home ELSE ExampleDefault

\* PageData::kind(), generated by kinded
Kind(pd) == pd.kind

Desktop == [kind |-> "Desktop"]
Mobile(t) == [kind |-> "Mobile", tabs_open |-> t]

\* Display of a Page, generated by kinded: the variant's name
PageDisplay(page) == page

\* mutant: the key leaves the kind out
page_storage_key_NoKind(page) == STORAGE_KEY \o "-" \o "Page"

\* page_storage_key!
page_storage_key(page) == STORAGE_KEY \o "-" \o PageDisplay(page)

Keys == {STORAGE_KEY, LAYOUT_KEY} \cup {page_storage_key(p) : p \in Pages}

----------------------------------------------------------------------------
(* Serialization (serde derive + RON, through eframe::set_value/get_value) *)

NoEntry == [tag |-> "<none>"]
Malformed == [tag |-> "<malformed>"]
None == [ok |-> FALSE]
Some(v) == [ok |-> TRUE, val |-> v]

\* Serialize for PageData: Example.value is #[serde(skip)]
SerPageData(pd) ==
    IF pd.kind = "Home" THEN [tag |-> "Home"]
    ELSE [tag |-> "Example", label |-> pd.label]

\* Deserialize for PageData: #[serde(default)] on Example fills the skipped
\* value (and a missing label) from Example::default()
DePageData(ron) ==
    IF ron.tag = "Home" THEN Some(Home)
    ELSE IF ron.tag = "Example"
         THEN Some(ExampleData(IF "label" \in DOMAIN ron THEN ron.label ELSE DefaultLabel,
                               DefaultValue))
         ELSE None

SerLayoutData(ld) ==
    IF ld.kind = "Desktop" THEN [tag |-> "Desktop"]
    ELSE [tag |-> "Mobile", tabs_open |-> ld.tabs_open]

DeLayoutData(ron) ==
    IF ron.tag = "Desktop" THEN Some(Desktop)
    ELSE IF ron.tag = "Mobile" /\ "tabs_open" \in DOMAIN ron
         THEN Some(Mobile(ron.tabs_open))
         ELSE None

\* Serialize for MyApp: logs and log_receiver are #[serde(skip)]
SerMyApp(pd, dw, ld) ==
    [tag |-> "MyApp", page_data |-> SerPageData(pd), debug_window |-> dw,
     layout |-> SerLayoutData(ld)]

\* Deserialize for MyApp: the persisted fields of a stored application state
DeMyApp(ron) ==
    IF ron.tag = "MyApp" /\ DePageData(ron.page_data).ok /\ DeLayoutData(ron.layout).ok
    THEN Some([page_data |-> DePageData(ron.page_data).val,
               debug_window |-> ron.debug_window,
               layout |-> DeLayoutData(ron.layout).val])
    ELSE None

----------------------------------------------------------------------------
(* Log bridge (src/logger.rs) *)

\* Display of log::Level
LevelDisplay(level) ==
    CASE level = Error -> "ERROR"
      [] level = Warn -> "WARN"
      [] level = Info -> "INFO"
      [] level = Debug -> "DEBUG"
      [] level = Trace -> "TRACE"

Record(level, text) == [level |-> level, text |-> text]

\* the record Logger::log builds when the channel send fails
WarnLog == Record(Warn, "Unable to send previous log to application.")

\* Logger::enabled
LoggerEnabled(level) == level <= filter

\* self.web_logger.log(record): eframe's WebLogger, built with the same
\* filter, writes the record to the console only if its level passes
WebLoggerLog(cons, rec) ==
    IF rec.level <= filter THEN Append(cons, rec) ELSE cons

\* self.log_sender.send(..) is Ok unless the receiver has been dropped
SendOk == receiver # "dropped"

\* mutant: a failed send is not reported
LoggerLog_NoWarning(w, level, text) ==
    LET rec == Record(level, text)
        c1 == WebLoggerLog(w.console, rec)
    IN IF SendOk
       THEN [w EXCEPT !.console = c1, !.channel = Append(@, rec)]
       ELSE [w EXCEPT !.console = c1]

\* Logger::log: console first, then the channel, then the warning on failure.
\* A world w is [storage, channel, console, emitted].
LoggerLog(w, level, text) ==
    LET rec == Record(level, text)
        c1 == WebLoggerLog(w.console, rec)
    IN IF SendOk
       THEN [w EXCEPT !.console = c1, !.channel = Append(@, rec)]
       ELSE [w EXCEPT !.console = WebLoggerLog(c1, WarnLog)]

\* log::error!/info!/debug!: the log crate drops the record when its level
\* is above log::max_level(), which Logger::init sets to the filter
LogMacro(w, level, text) ==
    LET w1 == [w EXCEPT !.emitted = Append(@, Record(level, text))]
    IN IF level <= filter THEN LoggerLog(w1, level, text) ELSE w1

----------------------------------------------------------------------------
(* Persistence keying (src/app.rs) *)

\* Debug formatting of a PageData (the value in units of 1e-7)
DebugPageData(pd) ==
    IF pd.kind = "Home" THEN "Home"
    ELSE "Example(Example { label: \"" \o pd.label \o "\", value: "
            \o ToString(pd.value) \o "e-7 })"

\* eframe::set_value
SetValue(w, key, ron) == [w EXCEPT !.storage[key] = ron]

\* eframe::get_value::<T>, decoded being what Deserialize for T makes of
\* the entry under the key: None when the key is absent or the stored text
\* does not parse (which eframe reports at debug level)
GetValue(w, key, decoded) ==
    IF w.storage[key] = NoEntry THEN [w |-> w, ret |-> None]
    ELSE IF decoded.ok THEN [w |-> w, ret |-> decoded]
    ELSE [w |-> LogMacro(w, Debug, "Failed to decode RON"), ret |-> None]

\* mutant: the write does not depend on the storage handle
PageDataSave_IgnoresHandle(w, pd) ==
    LET key == page_storage_key(Kind(pd))
        w1 == LogMacro(w, Debug, "Saving path: " \o key)
    IN SetValue(LogMacro(w1, Debug, "Saving data: " \o DebugPageData(pd)),
                key, SerPageData(pd))

\* PageData::save
PageDataSave(w, pd) ==
    LET key == page_storage_key(Kind(pd))
        w1 == LogMacro(w, Debug, "Saving path: " \o key)
    IN IF frame_storage
       THEN SetValue(LogMacro(w1, Debug, "Saving data: " \o DebugPageData(pd)),
                     key, SerPageData(pd))
       ELSE LogMacro(w1, Error, "Failed to save path: " \o key)

\* Page::load: with a storage handle the fallback is unwrap_or_default(),
\* i.e. PageData::default(); without one it is self.into()
PageLoad(w, page) ==
    LET key == page_storage_key(page)
        w1 == LogMacro(w, Debug, "Loading path: " \o key)
    IN IF frame_storage
       THEN LET g == GetValue(w1, key, DePageData(w1.storage[key]))
                pd == IF g.ret.ok THEN g.ret.val ELSE PageDataDefault
            IN [w |-> LogMacro(g.w, Debug, "Loading data: " \o DebugPageData(pd)),
                ret |-> pd]
       ELSE [w |-> w1, ret |-> PageInto(page)]

\* mutant: the page being left is not saved
SwitchPage_LoadOnly(w, pd, page) == PageLoad(w, page)

\* mutant: the page being left is saved under the key of the page entered
SwitchPage_SavesUnderNewKind(w, pd, page) ==
    PageLoad(IF frame_storage
             THEN SetValue(w, page_storage_key(page), SerPageData(pd))
             ELSE w,
             page)

\* MyApp::switch_page
SwitchPage(w, pd, page) == PageLoad(PageDataSave(w, pd), page)

\* "Reset Page": save every kind's default in Page::all() order, then
\* reload the active kind
RECURSIVE SaveDefaults(_, _)
SaveDefaults(w, i) ==
    IF i > Len(PageOrder) THEN w
    ELSE SaveDefaults(PageDataSave(w, PageInto(PageOrder[i])), i + 1)

\* mutant: the defaults are not saved before the reload
ResetPage_NoSave(w, pd) == PageLoad(w, Kind(pd))

ResetPage(w, pd) == PageLoad(SaveDefaults(w, 1), Kind(pd))

----------------------------------------------------------------------------
(* Ring buffer and debug window *)

\* format!("{}: {}\n", level, text)
Line(rec) == LevelDisplay(rec.level) \o ": " \o rec.text \o "\n"

\* CircularQueue::push on a queue of capacity LOG_CAPACITY
Push(q, line) ==
    IF Len(q) < LOG_CAPACITY THEN Append(q, line) ELSE Append(Tail(q), line)

\* self.logs.iter().fold("", |acc, log| acc + log): CircularQueue::iter()
\* goes from the most recently pushed line to the oldest one
RECURSIVE Collect(_)
Collect(q) ==
    IF q = <<>> THEN "" ELSE q[Len(q)] \o Collect(SubSeq(q, 1, Len(q) - 1))

----------------------------------------------------------------------------
(* Operations                                                              *)
(*                                                                         *)
(* A frame of MyApp::update handles at most one activated control and then *)
(* drains the log channel.  The controls that only change the layout or    *)
(* only log ("Toggle Layout", "Default Layout", "Is Mobile?", "Debug       *)
(* Page") are left out, as is the avatar lookup MyApp::new spawns, which   *)
(* does nothing but log one debug record.  The frame handed to update,     *)
(* save and load is a parameter of its own, so its storage handle is       *)
(* independent of the one MyApp::new saw.                                  *)

\* the world an operation starts from: nothing written or emitted yet
World == [storage |-> storage, channel |-> channel, console |-> <<>>,
          emitted |-> <<>>]

\* records the channel has accepted so far
Sent(w) == Len(appended) + Len(w.channel)

\* the bound on the records of one run
Bounded(w) == Sent(w) <= MaxSent

NoPage == [kind |-> "-"]

Op(op, page) ==
    [op |-> op, page |-> page, level |-> Off,
     before |-> IF op \in {"switch_page", "reset"} THEN page_data ELSE NoPage,
     origin |-> IF op = "switch_page" /\ last.op = "switch_page"
                THEN last.before ELSE NoPage]

\* mutant: the two arms of the match are swapped
HostLayout_Swapped == IF is_mobile THEN Desktop ELSE Mobile(FALSE)

\* js_imports::is_mobile() mapped to the layout MyApp::new selects
HostLayout == IF is_mobile THEN Mobile(FALSE) ELSE Desktop

\* MyApp::new; given says that the log_receiver argument is Some
New ==
    /\ pc = "start"
    /\ \E given \in {g \in BOOLEAN : g => receiver = "caller"} :
        IF ~cc_storage
        THEN /\ pc' = "failed"
             /\ receiver' = IF given THEN "dropped" ELSE receiver
             /\ channel' = IF given THEN <<>> ELSE channel
             /\ console' = <<>>
             /\ UNCHANGED <<storage, page_data, debug_window, layout>>
        ELSE LET a == GetValue(World, STORAGE_KEY, DeMyApp(storage[STORAGE_KEY]))
                 l == GetValue(a.w, LAYOUT_KEY, DeLayoutData(storage[LAYOUT_KEY]))
                 w == IF a.ret.ok THEN a.w ELSE l.w
             IN /\ pc' = "running"
                /\ receiver' = IF given THEN "app" ELSE receiver
                /\ page_data' = IF a.ret.ok THEN a.ret.val.page_data ELSE Home
                /\ debug_window' = IF a.ret.ok THEN a.ret.val.debug_window ELSE FALSE
                /\ layout' = IF a.ret.ok THEN a.ret.val.layout
                             ELSE IF l.ret.ok THEN l.ret.val ELSE HostLayout
                /\ storage' = w.storage
                /\ channel' = w.channel
                /\ console' = w.console
    /\ last' = Op("new", "-")
    /\ UNCHANGED <<cc_storage, frame_storage, is_mobile, logs, filter,
                   log_output, appended>>

\* a variant of the frame end that takes the record sent last
EndFrame_TakesNewest(w, pd, dw, ld, op, page) ==
    LET got == receiver = "app" /\ w.channel # <<>>
        n == Len(w.channel)
    IN /\ page_data' = pd
       /\ debug_window' = dw
       /\ layout' = ld
       /\ log_output' = IF dw THEN Collect(logs) ELSE ""
       /\ logs' = IF got THEN Push(logs, Line(w.channel[n])) ELSE logs
       /\ appended' = IF got THEN Append(appended, Line(w.channel[n]))
                      ELSE appended
       /\ channel' = IF got THEN SubSeq(w.channel, 1, n - 1) ELSE w.channel
       /\ storage' = w.storage
       /\ console' = w.console
       /\ last' = Op(op, page)
       /\ UNCHANGED <<pc, cc_storage, frame_storage, is_mobile, receiver, filter>>

\* The end of every MyApp::update: the debug window, if open, shows the
\* collected log text, then at most one record is taken from the channel.
\* w, pd, dw and ld are the world and the fields after the frame's click.
EndFrame(w, pd, dw, ld, op, page) ==
    LET got == receiver = "app" /\ w.channel # <<>>
    IN /\ page_data' = pd
       /\ debug_window' = dw
       /\ layout' = ld
       /\ log_output' = IF dw THEN Collect(logs) ELSE ""
       /\ logs' = IF got THEN Push(logs, Line(Head(w.channel))) ELSE logs
       /\ appended' = IF got THEN Append(appended, Line(Head(w.channel)))
                      ELSE appended
       /\ channel' = IF got THEN Tail(w.channel) ELSE w.channel
       /\ storage' = w.storage
       /\ console' = w.console
       /\ last' = Op(op, page)
       /\ UNCHANGED <<pc, cc_storage, frame_storage, is_mobile, receiver, filter>>

\* the page buttons and the debug-menu button are drawn
MenuShown == IF layout.kind = "Desktop" THEN TRUE ELSE layout.tabs_open

\* a frame in which no control is activated
UpdateIdle ==
    /\ pc = "running"
    /\ EndFrame(World, page_data, debug_window, layout, "update", "-")

\* a frame in which "Home" or "Example" is clicked
UpdateSwitchPage ==
    /\ pc = "running"
    /\ MenuShown
    /\ \E page \in Pages :
        LET r == SwitchPage(World, page_data, page)
        IN /\ Bounded(r.w)
           /\ EndFrame(r.w, r.ret, debug_window, layout, "switch_page", page)

\* a frame in which "Debug Menu" is clicked
UpdateDebugMenu ==
    /\ pc = "running"
    /\ MenuShown
    /\ EndFrame(World, page_data, ~debug_window, layout, "update", "-")

\* a frame in which "Pages" is clicked (mobile layout)
UpdatePages ==
    /\ pc = "running"
    /\ layout.kind = "Mobile"
    /\ EndFrame(World, page_data, debug_window, Mobile(~layout.tabs_open),
                "update", "-")

\* a frame in which "Reset Page" is clicked
UpdateResetPage ==
    /\ pc = "running"
    /\ debug_window
    /\ LET r == ResetPage(World, page_data)
       IN /\ Bounded(r.w)
          /\ EndFrame(r.w, r.ret, debug_window, layout, "reset", "-")

\* a frame in which the Example page's text field is edited
UpdateEditLabel ==
    /\ pc = "running"
    /\ page_data.kind = "Example"
    /\ \E l \in Labels \ {page_data.label} :
        EndFrame(World, [page_data EXCEPT !.label = l], debug_window, layout,
                 "update", "-")

\* a frame in which the Example page's slider is dragged
UpdateSlider ==
    /\ pc = "running"
    /\ page_data.kind = "Example"
    /\ \E v \in SliderValues \ {page_data.value} :
        EndFrame(World, [page_data EXCEPT !.value = v], debug_window, layout,
                 "update", "-")

\* a frame in which "Increment" is clicked
UpdateIncrement ==
    /\ pc = "running"
    /\ page_data.kind = "Example"
    /\ page_data.value + IncrementStep <= DefaultValue + MaxIncrements * IncrementStep
    /\ EndFrame(World, [page_data EXCEPT !.value = @ + IncrementStep],
                debug_window, layout, "update", "-")

\* eframe::App::save, called by eframe with the storage when the
\* application shuts down
AppSave ==
    /\ pc = "running"
    /\ frame_storage
    /\ pc' = "exited"
    /\ storage' = [storage EXCEPT
                     ![STORAGE_KEY] = SerMyApp(page_data, debug_window, layout)]
    /\ console' = <<>>
    /\ last' = Op("app_save", "-")
    /\ UNCHANGED <<cc_storage, frame_storage, is_mobile, page_data,
                   debug_window, layout, logs, receiver, filter, channel,
                   log_output, appended>>

\* PageData::save called on the active page's data
SaveCall ==
    /\ pc = "running"
    /\ LET w == PageDataSave(World, page_data)
       IN /\ Bounded(w)
          /\ storage' = w.storage
          /\ channel' = w.channel
          /\ console' = w.console
    /\ last' = Op("save", "-")
    /\ UNCHANGED <<pc, cc_storage, frame_storage, is_mobile, page_data,
                   debug_window, layout, logs, receiver, filter, log_output,
                   appended>>

\* Logger::log called with a record of any level, as the Log trait allows
\* (the log macros are not the only callers)
LogCall ==
    /\ Sent(World) < MaxDirect
    /\ \E level \in Levels, text \in Texts :
        LET w == LoggerLog(World, level, text)
        IN /\ channel' = w.channel
           /\ console' = w.console
           /\ last' = [Op("log", "-") EXCEPT !.level = level]
    /\ UNCHANGED <<pc, cc_storage, frame_storage, is_mobile, storage, page_data,
                   debug_window, layout, logs, receiver, filter, log_output,
                   appended>>

\* Logger::log called with the next of a numbered series of records, the
\* levels taken in turn
LogNumbered ==
    LET n == Sent(World)
        w == LoggerLog(World, (n % Trace) + 1, "m" \o ToString(n))
    IN /\ receiver # "dropped"
       /\ n < MaxRingLines
       /\ Len(channel) < MaxPending
       /\ channel' = w.channel
       /\ console' = w.console
       /\ last' = [Op("log", "-") EXCEPT !.level = (n % Trace) + 1]
       /\ UNCHANGED <<pc, cc_storage, frame_storage, is_mobile, storage,
                      page_data, debug_window, layout, logs, receiver, filter,
                      log_output, appended>>

\* the caller of Logger::init drops the receiver it still holds; the
\* records waiting in the channel go with it
DropReceiver ==
    /\ receiver = "caller"
    /\ receiver' = "dropped"
    /\ channel' = <<>>
    /\ console' = <<>>
    /\ last' = Op("drop_receiver", "-")
    /\ UNCHANGED <<pc, cc_storage, frame_storage, is_mobile, storage, page_data,
                   debug_window, layout, logs, filter, log_output, appended>>

----------------------------------------------------------------------------
(* Initial states: the process before MyApp::new, after Logger::init *)

Stored(whole, lay, home, example) ==
    (STORAGE_KEY :> whole) @@ (LAYOUT_KEY :> lay)
        @@ (page_storage_key("Home") :> home)
        @@ (page_storage_key("Example") :> example)

\* what earlier runs and earlier revisions of the program can have left in
\* storage
InitialStorages ==
    {Stored(NoEntry, NoEntry, NoEntry, e) :
        e \in {NoEntry, Malformed, SerPageData(ExampleData("edit", DefaultValue))}}
    \cup
    {Stored(a, NoEntry, NoEntry, NoEntry) :
        a \in {Malformed,
               SerMyApp(ExampleData("edit", DefaultValue), TRUE, Mobile(TRUE))}}
    \cup
    {Stored(a, l, NoEntry, NoEntry) :
        a \in {NoEntry, Malformed},
        l \in {Malformed, SerLayoutData(Mobile(TRUE))}}

Init ==
    /\ pc = "start"
    /\ cc_storage \in BOOLEAN
    /\ frame_storage \in BOOLEAN
    /\ is_mobile \in BOOLEAN
    /\ storage \in InitialStorages
    /\ page_data = Home
    /\ debug_window = FALSE
    /\ layout = Desktop
    /\ logs = <<>>
    /\ receiver = "caller"
    /\ filter \in LevelFilters
    /\ channel = <<>>
    /\ console = <<>>
    /\ log_output = ""
    /\ appended = <<>>
    /\ last = [op |-> "init", page |-> "-", level |-> Off, before |-> NoPage,
               origin |-> NoPage]

Next ==
    \/ New
    \/ UpdateIdle
    \/ UpdateSwitchPage
    \/ UpdateDebugMenu
    \/ UpdatePages
    \/ UpdateResetPage
    \/ UpdateEditLabel
    \/ UpdateSlider
    \/ UpdateIncrement
    \/ AppSave
    \/ SaveCall

Spec == Init /\ [][Next]_vars

----------------------------------------------------------------------------
(* The log bridge on its own: records of every level handed to the sink *)

InitLog ==
    /\ Init
    /\ storage = Stored(NoEntry, NoEntry, NoEntry, NoEntry)
    /\ frame_storage
    /\ ~is_mobile

NextLog ==
    \/ New
    \/ LogCall
    \/ DropReceiver
    \/ UpdateIdle

SpecLog == InitLog /\ [][NextLog]_vars

----------------------------------------------------------------------------
(* The ring buffer: more records than it holds, drained frame by frame *)

InitRing ==
    /\ InitLog
    /\ cc_storage

NextRing ==
    \/ New
    \/ LogNumbered
    \/ UpdateDebugMenu
    \/ UpdateIdle

SpecRing == InitRing /\ [][NextRing]_vars

----------------------------------------------------------------------------
(* The application started with nothing stored under any page's key *)

InitFresh ==
    /\ Init
    /\ \A page \in Pages : storage[page_storage_key(page)] = NoEntry

SpecFresh == InitFresh /\ [][Next]_vars

----------------------------------------------------------------------------
(* Properties: page switching and persistence *)

StoredUnder(page) == storage[page_storage_key(page)]

\* the stored text parses as page data
ParsesAsPageData(entry) == entry.tag \in Pages

\* the last operation was switch_page(A), the one before it switch_page(B)
\* from page A, and the storage handle is there
RoundTrip ==
    /\ frame_storage
    /\ last.op = "switch_page"
    /\ last.origin # NoPage
    /\ last.page = Kind(last.origin)

\* C1 as stated: after switch_page(B) then switch_page(A), with a storage
\* handle, the active page data equals the payload p that page A held
\* before the first switch, its Example value included.
C1_RoundTripRestoresPayload == RoundTrip => page_data = last.origin

\* C1 amended: after switch_page(B) then switch_page(A), with a storage
\* handle, the active page data has kind A and p's label; the Example value
\* is the default 3.1415926 whatever p's value was.
C1_RoundTripRestoresLabel ==
    RoundTrip =>
        /\ Kind(page_data) = Kind(last.origin)
        /\ Kind(page_data) = "Example" =>
            /\ page_data.label = last.origin.label
            /\ page_data.value = DefaultValue

C1_Witness ==
    /\ RoundTrip
    /\ last.origin = ExampleData("edit", DefaultValue + IncrementStep)
    /\ last.before = Home
    /\ page_data = ExampleData("edit", DefaultValue)

\* C2: after switch_page(k) returns, the active page's kind is k, with or
\* without a storage handle and whatever the storage holds.
C2_SwitchPageSetsKind ==
    last.op = "switch_page" => Kind(page_data) = last.page

\* C3: Page::load(k), here the load of switch_page(k), returns the
\* structural default of kind k when the storage holds nothing parseable
\* under k's key and when there is no storage handle.
C3_LoadFallsBackToKindDefault ==
    (/\ last.op = "switch_page"
     /\ ~frame_storage \/ ~ParsesAsPageData(StoredUnder(last.page)))
        => page_data = PageInto(last.page)

\* C4: after "Reset Page", Page::load(k) returns kind k's structural
\* default for every kind k, and the active page data is the structural
\* default of the kind that was active before the reset.
C4_ResetRestoresDefaults ==
    last.op = "reset" =>
        /\ \A k \in Pages :
            PageLoad(World, k).ret
                = IF k = "Home" THEN Home ELSE ExampleData(DefaultLabel, DefaultValue)
        /\ Kind(page_data) = Kind(last.before)
        /\ page_data = IF Kind(last.before) = "Home" THEN Home
                       ELSE ExampleData(DefaultLabel, DefaultValue)

C4_Witness ==
    /\ last.op = "reset"
    /\ frame_storage
    /\ last.before = ExampleData("edit", SliderMax)
    /\ StoredUnder("Example") = SerPageData(ExampleDefault)
    /\ page_data = ExampleDefault

----------------------------------------------------------------------------
(* Properties: the log bridge and the ring buffer *)

\* console lines that are the channel-failure warning
WarnLines(cons) == Cardinality({i \in DOMAIN cons : cons[i] = WarnLog})

\* C5: a record less severe than the Logger's minimum severity, handed to
\* Logger::log, writes nothing to the console and sends nothing on the
\* channel.
C5_BelowFilterReachesNoSink ==
    [][(last'.op = "log" /\ ~LoggerEnabled(last'.level))
          => (console' = <<>> /\ channel' = channel)]_vars

\* Logger::log has just run with the receiver already dropped
LoggedAfterDrop == last.op = "log" /\ receiver = "dropped"

\* C6 as stated: with the receiver dropped, every logged record produces
\* exactly one warning line on the console, for every minimum severity.
C6_OneWarningForEveryFilter == LoggedAfterDrop => WarnLines(console) = 1

\* C6 amended: with the receiver dropped, a logged record produces exactly
\* one warning line on the console when the minimum severity admits Warn and
\* none when it is Off or Error; the console holds nothing but the record
\* itself (if it passes the filter) and that warning, nothing is sent on the
\* channel, and the call returns normally.
C6_OneWarningWhenWarnPasses ==
    LoggedAfterDrop =>
        /\ WarnLines(console) = IF filter >= Warn THEN 1 ELSE 0
        /\ Len(console) = (IF last.level <= filter THEN 1 ELSE 0)
                            + (IF filter >= Warn THEN 1 ELSE 0)
        /\ channel = <<>>
        /\ pc \in {"start", "running", "failed"}

C6_Witness ==
    /\ LoggedAfterDrop
    /\ filter = Info
    /\ last.level = Error
    /\ console = <<Record(Error, "m"), WarnLog>>

\* the n most recently appended lines, oldest first
MostRecent(lines, n) == SubSeq(lines, Len(lines) - n + 1, Len(lines))

Min(a, b) == IF a <= b THEN a ELSE b

\* the lines of a buffer concatenated in insertion order
RECURSIVE OldestFirst(_)
OldestFirst(q) == IF q = <<>> THEN "" ELSE Head(q) \o OldestFirst(Tail(q))

\* C7: the log buffer holds at most 16 lines, they are the min(n, 16) most
\* recently appended of the n lines appended so far, and a frame that shows
\* the debug window shows them concatenated in insertion order, oldest
\* first.
C7_RingBufferBoundOrderAndText ==
    /\ [](/\ Len(logs) <= 16
          /\ logs = MostRecent(appended, Min(Len(appended), 16)))
    /\ [][(last'.op = "update" /\ debug_window')
             => log_output' = OldestFirst(logs)]_vars

\* the buffer part of C7 alone, which the code satisfies
RingBufferKeepsMostRecent ==
    /\ Len(logs) <= 16
    /\ logs = MostRecent(appended, Min(Len(appended), 16))

RingBufferEvicted == Len(appended) > 16 /\ Len(logs) = 16

----------------------------------------------------------------------------
(* Properties: construction, save failure, storage keys *)

\* C8: MyApp::new fails exactly when there is no storage handle at startup.
\* With a handle it returns the stored application state when the
\* whole-state entry parses, and otherwise page Home, debug window closed
\* and the layout of the stored layout entry if there is one, else
\* Mobile{tabs_open: false} on a mobile host and Desktop elsewhere.  No
\* later operation fails: a run is in the failed state only right after
\* MyApp::new.
C8_ConstructionErrorOnlyWithoutStorage ==
    /\ last.op = "new" => (pc = "failed" <=> ~cc_storage)
    /\ last.op = "new" => (pc = "running" <=> cc_storage)
    /\ pc = "failed" => last.op = "new"
    /\ (last.op = "new" /\ pc = "running") =>
        IF storage[STORAGE_KEY] \in {NoEntry, Malformed}
        THEN /\ page_data = [kind |-> "Home"]
             /\ debug_window = FALSE
             /\ layout = IF storage[LAYOUT_KEY] \in {NoEntry, Malformed}
                         THEN IF is_mobile
                              THEN [kind |-> "Mobile", tabs_open |-> FALSE]
                              ELSE [kind |-> "Desktop"]
                         ELSE IF storage[LAYOUT_KEY].tag = "Desktop"
                              THEN [kind |-> "Desktop"]
                              ELSE [kind |-> "Mobile",
                                    tabs_open |-> storage[LAYOUT_KEY].tabs_open]
        ELSE storage[STORAGE_KEY] = SerMyApp(page_data, debug_window, layout)

C8_Witness ==
    /\ last.op = "new"
    /\ pc = "running"
    /\ storage[STORAGE_KEY] = Malformed
    /\ storage[LAYOUT_KEY] = NoEntry
    /\ is_mobile
    /\ layout = Mobile(FALSE)
    /\ page_data = Home

\* records of error severity among those handed to the log macros
ErrorRecords(recs) == Cardinality({i \in DOMAIN recs : recs[i].level = Error})

\* C9: PageData::save called without a storage handle writes nothing to
\* storage, leaves page data, layout and debug-window flag as they were,
\* raises no error, and hands exactly one error-severity record to the log
\* (which the console shows whenever the filter admits Error).  The saves
\* inside switch_page and "Reset Page" write nothing either.
C9_SaveWithoutHandleIsDropped ==
    [][~frame_storage =>
        /\ last'.op = "save" =>
            LET w == PageDataSave(World, page_data)
                failed == Record(Error, "Failed to save path: "
                                          \o "tye_home-" \o Kind(page_data))
            IN /\ storage' = storage
               /\ page_data' = page_data
               /\ layout' = layout
               /\ debug_window' = debug_window
               /\ pc' = pc
               /\ ErrorRecords(w.emitted) = 1
               /\ filter >= Error =>
                    Cardinality({i \in DOMAIN console' : console'[i] = failed}) = 1
               /\ filter < Error => console' = <<>>
        /\ last'.op \in {"switch_page", "reset"} =>
            /\ storage' = storage
            /\ layout' = layout
            /\ debug_window' = debug_window
            /\ pc' = pc]_vars

C9_Witness ==
    /\ last.op = "save"
    /\ ~frame_storage
    /\ page_data.kind = "Example"
    /\ filter = Error
    /\ console = <<Record(Error, "Failed to save path: tye_home-Example")>>

\* C10: the storage key of a page kind is "tye_home-" followed by the
\* kind's name, different kinds have different keys (none of them the
\* whole-state or the layout key), and saving one kind's data changes no
\* entry but the one under that kind's key.
C10_KeysAreDistinctPerKind ==
    /\ [](/\ page_storage_key("Home") = "tye_home-Home"
          /\ page_storage_key("Example") = "tye_home-Example"
          /\ \A k1, k2 \in Pages :
                k1 # k2 => page_storage_key(k1) # page_storage_key(k2)
          /\ \A k \in Pages : page_storage_key(k) \notin {STORAGE_KEY, LAYOUT_KEY})
    /\ [][last'.op \in {"save", "switch_page"} =>
            \A key \in DOMAIN storage :
                key # "tye_home-" \o Kind(page_data) => storage'[key] = storage[key]]_vars

C10_Witness ==
    /\ last.op = "save"
    /\ frame_storage
    /\ page_data = ExampleData("edit", SliderMax)
    /\ storage["tye_home-Example"] = [tag |-> "Example", label |-> "edit"]
    /\ storage["tye_home-Home"] = [tag |-> "Home"]

----------------------------------------------------------------------------
(* Properties: the log drain at the end of a frame *)

\* the frames of the application
FrameOps == {"update", "switch_page", "reset"}

\* the n-th record of the numbered series, as the line the buffer shows
NumberedLine(n) ==
    LevelDisplay((n % Trace) + 1) \o ": m" \o ToString(n) \o "\n"

\* C11: a frame takes at most one record from the channel -- the one sent
\* earliest of those waiting -- and appends it to the log buffer as
\* "{level}: {message}\n"; the lines enter the buffer in the order the
\* records were sent; with no record waiting or no receiver held by the
\* application the frame leaves buffer and channel alone; and a frame can
\* always be taken, whatever the channel holds.
C11_FrameDrainsOneInOrder ==
    /\ [][last'.op \in FrameOps =>
            IF receiver = "app" /\ channel # <<>>
            THEN /\ channel' = Tail(channel)
                 /\ appended' = Append(appended,
                        LevelDisplay(Head(channel).level) \o ": "
                            \o Head(channel).text \o "\n")
                 /\ logs'[Len(logs')] = appended'[Len(appended')]
                 /\ Len(logs') = Min(Len(logs) + 1, 16)
            ELSE /\ channel' = channel
                 /\ appended' = appended
                 /\ logs' = logs]_vars
    /\ [](\A i \in 1..Len(appended) : appended[i] = NumberedLine(i - 1))
    /\ [](pc = "running" => ENABLED UpdateIdle)

\* a frame has taken the second record while a third was waiting
C11_Witness ==
    /\ last.op = "update"
    /\ receiver = "app"
    /\ appended = <<"ERROR: m0\n", "WARN: m1\n">>
    /\ logs = appended
    /\ Len(channel) = 1

\* a frame has passed with records waiting and no receiver in the
\* application
FramePassedWithoutReceiver ==
    /\ last.op = "update"
    /\ receiver = "caller"
    /\ Len(channel) = 2
    /\ logs = <<>>

----------------------------------------------------------------------------
(* Properties: what the per-page keys hold *)

\* C12: started with nothing stored under the page keys, whatever the
\* sequence of page switches, resets, saves and frames, an entry stored
\* under the key of page kind k is a payload of kind k
C12_StoredKindMatchesKey ==
    \A k \in Pages :
        LET entry == storage["tye_home-" \o k]
        IN entry # NoEntry =>
            /\ entry.tag = k
            /\ k = "Example" => entry.label \in Labels

\* both page keys hold a payload after a switch away from an edited
\* Example page
C12_Witness ==
    /\ last.op = "switch_page"
    /\ last.before = ExampleData("edit", SliderMax)
    /\ storage["tye_home-Example"] = [tag |-> "Example", label |-> "edit"]
    /\ storage["tye_home-Home"] = [tag |-> "Home"]

====
